---- MODULE Spec2Model ----
(***************************************************************************)
(* State-machine model of the relationship graph view                      *)
(* (src/src/components/visualization/GraphView.tsx): the React component   *)
(* state, the svg element it renders into, the d3 force simulations its    *)
(* graph-building effect creates, the d3 drag gestures on their nodes and  *)
(* the two zoom paths.  One action per event handler; each action includes *)
(* the render and the effects React runs because of the handler's state    *)
(* updates.                                                                *)
(***************************************************************************)
EXTENDS Integers, Sequences, FiniteSets, TLC

(***************************** bounds **************************************)
MaxFetches == 2      \* fetches issued in one behaviour
MaxResizes == 1      \* changes of the width/height props in one behaviour
MaxTicks == 2        \* simulation ticks in one behaviour (Tick; FreeTick is free)
MaxHeldTicks == 1    \* ticks during held drags in one behaviour (SimTick)
MaxNodes == 2        \* nodes of the graph fetched in SpecDrag
LifeNodes == 1       \* nodes of the graphs fetched in Spec, SpecSim, SpecZoom
MaxCoord == 1        \* x coordinates are 0..MaxCoord
MaxPointer == 2      \* concurrent pointers (mouse, touches) of SpecDrag
MaxSubmits == 2      \* submits of the login form in one behaviour
MaxItems == 12       \* investigations of the longest response
FewItems == 3        \* investigations of a short response
FoxItems == 2        \* investigations of a response titled "Fox"
MaxPending == 2      \* requests of the investigations list awaited at once
LifePointer == 1     \* concurrent pointers of Spec and SpecSim

(*************************** program constants *****************************)
NoSim == 0           \* simulationRef.current === null
NoElem == 0          \* svgRef.current === null
SvgElem == 1         \* svgRef.current is the rendered svg element
NoData == 0          \* graphData === null
NoNode == 0          \* selectedNode === null
Unpinned == -1       \* fx / fy undefined or null
Undrawn == -1        \* a node element without a transform attribute
YRow == 5            \* the y coordinate of the modelled row of the canvas

AlphaOne == 10000000      \* alpha = 1; alpha is kept in units of 10^-7
AlphaMin == 10000         \* d3 alphaMin 0.001
DecayNum == 22762779      \* d3 alphaDecay = 1 - 0.001^(1/300)
DecayDen == 1000000000    \*   = 0.022762779...
DragTarget == 3000000     \* alphaTarget(0.3)
ZoomOne == 10        \* scale 1, in tenths
ZoomStep == 2        \* 0.2
ZoomMax == 30        \* 3
ZoomMin == 5         \* 0.5
ExtentMin == 1       \* scaleExtent([0.1, 4])
ExtentMax == 40

ItemsPerPage == 10   \* ITEMS_PER_PAGE
ProfileCycle == 7    \* profiles of the modelled investigations are 0..6

Scopes == {"inv1", "inv2"}
Sizes == {<<800, 600>>, <<1000, 600>>, <<800, 700>>}   \* width, height props
XCoord == 0..MaxCoord
YCoord == {YRow}

(* A fetched graph: its node ids and its links (source id, target id).     *)
(* GoodGraph(k) links node 1 to node k; BadGraph(k) holds a link whose     *)
(* target is no node of the graph.                                         *)
GoodGraph(k) == [nodes |-> 1..k, links |-> IF k > 1 THEN {<<1, k>>} ELSE {}]
BadGraph(k) == [nodes |-> 1..k, links |-> {<<1, k + 1>>}]
Payloads == {GoodGraph(LifeNodes), BadGraph(LifeNodes)}
(* Responses of SpecBuild: up to MaxNodes nodes and any links of LinkPool, *)
(* whose last two name a node that no response has.                        *)
LinkPool == {<<1, 2>>, <<2, 1>>, <<1, MaxNodes + 1>>, <<MaxNodes + 1, 2>>}
BuildPayloads ==
  {[nodes |-> 1..k, links |-> L] : k \in 0..MaxNodes, L \in SUBSET LinkPool}
Translations == {<<0, 0>>, <<40, 30>>}     \* translations a pointer pan gives
WheelScales == {0, 10, 20, 45}             \* scales a pointer zoom asks for

(* graphData: the response of fetch id for scope; written holds the ids of *)
(* the fetched node objects on which a simulation wrote x, y, fx or fy.    *)
NullData == [id |-> NoData, scope |-> "none", nodes |-> {}, links |-> {},
             written |-> {}]
NoDrag == [sim |-> NoSim, node |-> NoNode, dx |-> 0, dy |-> 0]
NoSelection == <<NoSim, NoNode>>
NoLast == [act |-> "Init", sim |-> NoSim, node |-> NoNode, p |-> 0,
           x |-> 0, y |-> 0, was |-> NoSelection]
Identity == [k |-> ZoomOne, x |-> 0, y |-> 0]

(* The InvestigationsList page: the investigations a response holds, the   *)
(* search queries typed and the options of the filter selects.             *)
Item(i) ==
  [id |-> i,
   title |-> IF i <= FoxItems THEN <<"F", "o", "x">> ELSE <<"O", "w", "l">>,
   status |-> IF i % 2 = 1 THEN "active" ELSE "completed",
   priority |-> IF i % 3 = 0 THEN "high" ELSE "low",
   profiles |-> i % ProfileCycle]
ListResponses == {[i \in 1..n |-> Item(i)] : n \in {0, FewItems, MaxItems}}
Queries == {<<>>, <<"f", "o">>, <<"O", "W">>, <<"z">>}
StatusOptions == {"all", "active", "completed", "pending"}
PriorityOptions == {"all", "high", "medium", "low"}
CountOptions == {"all", "0", "1-2", "3-5", "6+"}
(* A rejection of investigationApi.getAll(): an Error instance with a      *)
(* message (which may be empty), an object with a response (whose          *)
(* data.detail may be missing: ""), or anything else.                      *)
ListRejections ==
  {[kind |-> "Error", message |-> m, detail |-> ""] :
     m \in {"", "Network Error"}}
  \cup {[kind |-> "response", message |-> "", detail |-> d] :
          d \in {"", "Server error"}}
  \cup {[kind |-> "other", message |-> "teapot", detail |-> ""]}
NullError == "null"        \* the error state null
NewList == [mounted |-> FALSE, loading |-> TRUE, error |-> NullError,
            investigations |-> <<>>, searchQuery |-> <<>>,
            statusFilter |-> "all", priorityFilter |-> "all",
            profileCountFilter |-> "all", currentPage |-> 1,
            pending |-> 0, last |-> "Init"]

(* The Login page (src/src/pages/Login.tsx).  A rejection of the login     *)
(* call is an Error instance with a message, an object with a response     *)
(* (whose data.detail may be missing: ""), or anything else.               *)
Usernames == {"", "analyst", "admin"}
Passwords == {"", "secret"}
Rejections ==
  {[kind |-> "Error", message |-> m, detail |-> ""] :
     m \in {"", "Bad credentials"}}
  \cup {[kind |-> "response", message |-> "", detail |-> d] :
          d \in {"", "Account locked"}}
  \cup {[kind |-> "other", message |-> "teapot", detail |-> ""]}
NoRejection == [kind |-> "none", message |-> "", detail |-> ""]
NewLogin == [username |-> "", password |-> "", error |-> "",
             loading |-> FALSE, pending |-> FALSE, calledWith |-> <<"", "">>,
             path |-> "/login", nSubmit |-> 0,
             last |-> "Init", err |-> NoRejection]

VARIABLES
  phase,          \* "new" (constructed), "mounted", "unmounted"
  crashed,        \* the graph-building effect threw: React removed the tree
  investigationId, width, height,      \* props
  graphData, loading, error, selectedNode, zoom,   \* useState
  svgRef,         \* SvgElem while the svg element is rendered, else NoElem
  simulationRef,  \* simulationRef.current
  cleanup,        \* the simulation the pending effect cleanup will stop
  sims,           \* every d3 simulation created so far, in creation order
  canvas,         \* the simulation whose elements and handlers are in svgRef
  zoomT,          \* __zoom of the mounted svg element
  gT,             \* the transform attribute of the drawn <g>
  inflight,       \* fetches awaiting their response
  nFetch, nResize, nTicks,
  drags,          \* active d3-drag gestures by pointer
  last,           \* the last event handled: for a drag event, its pointer p and
                  \* event.x, event.y; for a node click, the selection before it
  loginForm,      \* the Login page: its useState values, the pending login
                  \* call, the router path and the last event it handled
  invList         \* the InvestigationsList page: its useState values and its
                  \* pending requests

graphVars == <<phase, crashed, investigationId, width, height, graphData,
               loading, error, selectedNode, zoom, svgRef, simulationRef,
               cleanup, sims, canvas, zoomT, gT, inflight, nFetch, nResize,
               nTicks, drags, last>>
otherPages == <<loginForm, invList>>
vars == <<graphVars, otherPages>>

propVars == <<investigationId, width, height>>
viewVars == <<zoom, zoomT, gT>>
countVars == <<nFetch, nResize, nTicks>>

Ev(a, s) == [NoLast EXCEPT !.act = a, !.sim = s]

(************************** d3 force simulation ****************************)
Min(a, b) == IF a < b THEN a ELSE b
Max(a, b) == IF a > b THEN a ELSE b

(* d3 initialises missing positions deterministically from the node index. *)
InitX(n) == n % (MaxCoord + 1)
InitY(n) == YRow

Dangling(gd) == \E l \in gd.links : l[1] \notin gd.nodes \/ l[2] \notin gd.nodes

CopyShares(objs) == [ids |-> objs, fresh |-> FALSE]

(* objs.map(o => ({...o})): one new object for each fetched object.        *)
Copy(objs) == [ids |-> objs, fresh |-> TRUE]

(* forceLink's find(nodeById, id): the node with that id, NoNode if none   *)
(* (the library then throws); a link is resolved by finding both its ends. *)
find(nodes, id) == IF id \in nodes THEN id ELSE NoNode
ResolveLinks(nodes, links) ==
  {<<find(nodes, l[1]), find(nodes, l[2])>> : l \in links}

WorkingLinksDropsSome(gd, built) ==
  {l \in ResolveLinks(gd.nodes, gd.links) : l[1] # NoNode /\ l[2] # NoNode}

(* The links of the working model: the resolved copies when forceLink was  *)
(* initialised, none when its initialisation threw.                        *)
WorkingLinks(gd, built) ==
  IF built THEN ResolveLinks(Copy(gd.nodes).ids, Copy(gd.links).ids) ELSE {}

(* d3.forceSimulation(nodes) on the copies: the timer is started by the    *)
(* constructor; built says whether all forces and the tick handler got     *)
(* registered.  fresh: the simulation's nodes are copies of the fetched    *)
(* ones.  tx, ty: the translate of each node's element, set by the tick    *)
(* handler.                                                                *)
NewSim(gd, built) ==
  [data |-> gd.id, built |-> built, fresh |-> Copy(gd.nodes).fresh,
   running |-> TRUE, stopped |-> FALSE,
   alpha |-> AlphaOne, alphaTarget |-> 0,
   links |-> WorkingLinks(gd, built),
   x |-> [n \in Copy(gd.nodes).ids |-> InitX(n)],
   y |-> [n \in Copy(gd.nodes).ids |-> InitY(n)],
   fx |-> [n \in Copy(gd.nodes).ids |-> Unpinned],
   fy |-> [n \in Copy(gd.nodes).ids |-> Unpinned],
   tx |-> [n \in Copy(gd.nodes).ids |-> Undrawn],
   ty |-> [n \in Copy(gd.nodes).ids |-> Undrawn]]

(* The fetched data after a simulation wrote to the nodes N of its model:  *)
(* untouched when the model's nodes are copies (or the objects of an older *)
(* response).                                                              *)
WriteNodes(gd, sim, N) ==
  IF sim.fresh \/ sim.data # gd.id THEN gd
  ELSE [gd EXCEPT !.written = @ \cup N]

StopForgets(sim) == sim

(* simulation.stop(); stopped records that stop() was called on it.        *)
Stop(sim) == [sim EXCEPT !.running = FALSE, !.stopped = TRUE]

StopIn(S, s) == IF s = NoSim THEN S ELSE [S EXCEPT ![s] = Stop(@)]

(* m * alphaDecay for m >= 0, rounded to the nearest unit. The product is  *)
(* formed from three-digit groups of m and of DecayNum, so that no          *)
(* intermediate value leaves the 32-bit integers.                           *)
Decayed(m) ==
  LET mh == m \div 1000
      ml == m % 1000
      nh == DecayNum \div 1000
      nl == DecayNum % 1000
      low == ml * nl
      mid == mh * nl + ml * nh + low \div 1000
      hi == mh * nh + (DecayDen \div 2000000) + mid \div 1000
  IN hi \div (DecayDen \div 1000000)

AlphaStepAway(a, t) == IF t >= a THEN a - Decayed(t - a) ELSE a + Decayed(a - t)

(* alpha += (alphaTarget - alpha) * alphaDecay, to the nearest 10^-7.      *)
AlphaStep(a, t) == IF t >= a THEN a + Decayed(t - a) ELSE a - Decayed(a - t)

(* One timer callback of a simulation: tick(), then stop the timer when    *)
(* alpha < alphaMin.  nx, ny are the positions the forces give the free    *)
(* nodes; a pinned node is put at (fx, fy).                                *)
(* tick(): alpha decays and every node gets its position.                  *)
tickReleasesPins(sim, nx, ny) ==
  [sim EXCEPT
     !.alpha = AlphaStep(sim.alpha, sim.alphaTarget),
     !.x = [n \in DOMAIN sim.x |->
              IF sim.fx[n] # Unpinned THEN sim.fx[n]
              ELSE IF sim.built THEN nx[n] ELSE sim.x[n]],
     !.y = [n \in DOMAIN sim.y |->
              IF sim.fy[n] # Unpinned THEN sim.fy[n]
              ELSE IF sim.built THEN ny[n] ELSE sim.y[n]],
     !.fx = [n \in DOMAIN sim.fx |-> Unpinned],
     !.fy = [n \in DOMAIN sim.fy |-> Unpinned]]

tick(sim, nx, ny) ==
  [sim EXCEPT
     !.alpha = AlphaStep(sim.alpha, sim.alphaTarget),
     !.x = [n \in DOMAIN sim.x |->
              IF sim.fx[n] # Unpinned THEN sim.fx[n]
              ELSE IF sim.built THEN nx[n] ELSE sim.x[n]],
     !.y = [n \in DOMAIN sim.y |->
              IF sim.fy[n] # Unpinned THEN sim.fy[n]
              ELSE IF sim.built THEN ny[n] ELSE sim.y[n]]]

(* simulation.on('tick'): each node element is translated to (d.x, d.y);   *)
(* registered once the build got to line 195.                              *)
tickHandler(sim) == IF sim.built THEN [sim EXCEPT !.tx = sim.x, !.ty = sim.y]
                    ELSE sim

TickOfRendersFirst(sim, nx, ny) ==
  LET t == tick(tickHandler(sim), nx, ny)
  IN [t EXCEPT !.running = ~(t.alpha < AlphaMin)]

TickOf(sim, nx, ny) ==
  LET t == tickHandler(tick(sim, nx, ny))
  IN [t EXCEPT !.running = ~(t.alpha < AlphaMin)]

(****************************** d3 drag ************************************)
Active(s) == Cardinality({p \in DOMAIN drags : drags[p].sim = s})

dragstartedNoRestart(sim, n, active) ==
  LET a == IF active = 0 THEN [sim EXCEPT !.alphaTarget = DragTarget] ELSE sim
  IN [a EXCEPT !.fx[n] = sim.x[n], !.fy[n] = sim.y[n]]

(* if (!event.active) simulation.alphaTarget(0.3).restart(); then the pin  *)
(* at the subject's own position.                                          *)
dragstarted(sim, n, active) ==
  LET a == IF active = 0
           THEN [sim EXCEPT !.alphaTarget = DragTarget, !.running = TRUE]
           ELSE sim
  IN [a EXCEPT !.fx[n] = sim.x[n], !.fy[n] = sim.y[n]]

dragged(sim, n, ex, ey) == [sim EXCEPT !.fx[n] = ex, !.fy[n] = ey]

dragendedRestarts(sim, n, active, ex, ey) ==
  LET a == IF active = 0
           THEN [sim EXCEPT !.alphaTarget = 0, !.running = TRUE]
           ELSE sim
  IN [a EXCEPT !.fx[n] = ex, !.fy[n] = ey]

dragendedUnpins(sim, n, active, ex, ey) ==
  LET a == IF active = 0 THEN [sim EXCEPT !.alphaTarget = 0] ELSE sim
  IN [a EXCEPT !.fx[n] = Unpinned, !.fy[n] = Unpinned]

dragendedCools(sim, n, active, ex, ey) ==
  [sim EXCEPT !.alphaTarget = 0, !.fx[n] = ex, !.fy[n] = ey]

dragended(sim, n, active, ex, ey) ==
  LET a == IF active = 0 THEN [sim EXCEPT !.alphaTarget = 0] ELSE sim
  IN [a EXCEPT !.fx[n] = ex, !.fy[n] = ey]

(************************* render and effects ******************************)
(* The svg element after a render with loading = ld: none while loading.   *)
(* Kept(ld): the element rendered before the render is still the rendered  *)
(* one; otherwise a fresh, empty element (or none) takes its place.        *)
Elem(ld) == IF ld THEN NoElem ELSE SvgElem
Kept(ld) == ~ld /\ svgRef # NoElem

RenderOnlyStops(ld) ==
  /\ svgRef' = Elem(ld)
  /\ canvas' = IF Kept(ld) THEN canvas ELSE NoSim
  /\ zoomT' = IF Kept(ld) THEN zoomT ELSE Identity
  /\ gT' = IF Kept(ld) THEN gT ELSE Identity
  /\ sims' = StopIn(sims, simulationRef)
  /\ UNCHANGED <<simulationRef, cleanup, phase, crashed>>

(* A render that does not re-run the graph-building effect.                *)
RenderOnly(ld) ==
  /\ svgRef' = Elem(ld)
  /\ canvas' = IF Kept(ld) THEN canvas ELSE NoSim
  /\ zoomT' = IF Kept(ld) THEN zoomT ELSE Identity
  /\ gT' = IF Kept(ld) THEN gT ELSE Identity
  /\ UNCHANGED <<simulationRef, cleanup, sims, phase, crashed>>

(* A render followed by the graph-building effect (its dependencies        *)
(* graphData, width or height changed): the previous run's cleanup, then   *)
(* the effect body with the new graphData gd.                              *)
RenderAndBuild(gd, ld) ==
  LET S1 == StopIn(sims, cleanup)
      id == Len(sims) + 1
  IN
  IF gd.id = NoData \/ Elem(ld) = NoElem
  THEN /\ sims' = S1
       /\ cleanup' = NoSim
       /\ svgRef' = Elem(ld)
       /\ canvas' = IF Kept(ld) THEN canvas ELSE NoSim
       /\ zoomT' = IF Kept(ld) THEN zoomT ELSE Identity
       /\ gT' = IF Kept(ld) THEN gT ELSE Identity
       /\ UNCHANGED <<simulationRef, phase, crashed>>
  ELSE IF Dangling(gd)
  THEN \* forceLink throws "node not found" once the simulation exists;
       \* the uncaught error makes React remove the component tree
       /\ sims' = Append(StopIn(S1, simulationRef), NewSim(gd, FALSE))
       /\ cleanup' = NoSim
       /\ svgRef' = NoElem
       /\ canvas' = NoSim
       /\ zoomT' = Identity
       /\ gT' = Identity
       /\ phase' = "unmounted"
       /\ crashed' = TRUE
       /\ UNCHANGED simulationRef
  ELSE /\ sims' = Append(StopIn(S1, simulationRef), NewSim(gd, TRUE))
       /\ simulationRef' = id
       /\ cleanup' = id
       /\ svgRef' = Elem(ld)
       /\ canvas' = id
       /\ zoomT' = IF Kept(ld) THEN zoomT ELSE Identity
       /\ gT' = Identity
       /\ UNCHANGED <<phase, crashed>>

(* fetchGraphData up to its await: setLoading(true), setError(null), and   *)
(* the request for the scope id.                                           *)
StartFetch(scope) ==
  /\ nFetch < MaxFetches
  /\ nFetch' = nFetch + 1
  /\ inflight' = inflight \cup {[id |-> nFetch + 1, scope |-> scope]}
  /\ loading' = TRUE
  /\ error' = FALSE
  /\ RenderOnly(TRUE)

(******************************* actions ***********************************)
Init ==
  /\ phase = "new"
  /\ crashed = FALSE
  /\ investigationId = "inv1"
  /\ width = 800
  /\ height = 600
  /\ graphData = NullData
  /\ loading = FALSE
  /\ error = FALSE
  /\ selectedNode = <<NoSim, NoNode>>
  /\ zoom = ZoomOne
  /\ svgRef = NoElem
  /\ simulationRef = NoSim
  /\ cleanup = NoSim
  /\ sims = <<>>
  /\ canvas = NoSim
  /\ zoomT = Identity
  /\ gT = Identity
  /\ inflight = {}
  /\ nFetch = 0
  /\ nResize = 0
  /\ nTicks = 0
  /\ drags = [p \in 1..MaxPointer |-> NoDrag]
  /\ last = NoLast
  /\ loginForm = NewLogin
  /\ invList = NewList

(* First render (svg shown, loading false) and the mount effects: the      *)
(* fetch starts, the graph effect returns early, the zoom effect applies   *)
(* scale 1 to the svg that the loading render then removes.                *)
Mount ==
  /\ UNCHANGED otherPages
  /\ phase = "new"
  /\ phase' = "mounted"
  /\ nFetch' = nFetch + 1
  /\ inflight' = {[id |-> nFetch + 1, scope |-> investigationId]}
  /\ loading' = TRUE
  /\ error' = FALSE
  /\ svgRef' = NoElem
  /\ last' = Ev("Mount", NoSim)
  /\ UNCHANGED <<crashed, propVars, graphData, selectedNode, viewVars,
                 simulationRef, cleanup, sims, canvas, nResize, nTicks, drags>>

ScopeChange(id) ==
  /\ UNCHANGED otherPages
  /\ phase = "mounted"
  /\ id # investigationId
  /\ investigationId' = id
  /\ StartFetch(id)
  /\ last' = Ev("ScopeChange", NoSim)
  /\ UNCHANGED <<width, height, graphData, selectedNode, zoom, nResize,
                 nTicks, drags>>

handleRefresh ==
  /\ UNCHANGED otherPages
  /\ phase = "mounted"
  /\ StartFetch(investigationId)
  /\ last' = Ev("Refresh", NoSim)
  /\ UNCHANGED <<propVars, graphData, selectedNode, zoom, nResize, nTicks,
                 drags>>

(* The request of fetch f resolves with a graph: setGraphData, then        *)
(* setLoading(false) in finally, rendered together.                        *)
FetchSuccess(f, payload) ==
  /\ UNCHANGED otherPages
  /\ f \in inflight
  /\ inflight' = inflight \ {f}
  /\ last' = Ev("FetchSuccess", NoSim)
  /\ IF phase = "mounted"
     THEN LET gd == [id |-> f.id, scope |-> f.scope,
                     nodes |-> payload.nodes, links |-> payload.links,
                     written |-> {}]
          IN /\ graphData' = gd
             /\ loading' = FALSE
             /\ RenderAndBuild(gd, FALSE)
     ELSE UNCHANGED <<graphData, loading, svgRef, canvas, zoomT, gT,
                      simulationRef, cleanup, sims, phase, crashed>>
  /\ UNCHANGED <<propVars, error, selectedNode, zoom, countVars, drags>>

FetchFailureRetries(f) ==
  /\ UNCHANGED otherPages
  /\ f \in inflight
  /\ last' = Ev("FetchFailure", NoSim)
  /\ IF phase = "mounted" /\ nFetch < MaxFetches
     THEN /\ inflight' = (inflight \ {f}) \cup
                           {[id |-> nFetch + 1, scope |-> f.scope]}
          /\ nFetch' = nFetch + 1
          /\ error' = TRUE
          /\ loading' = TRUE
          /\ RenderOnly(TRUE)
     ELSE /\ inflight' = inflight \ {f}
          /\ UNCHANGED <<nFetch, error, loading, svgRef, canvas, zoomT, gT,
                         simulationRef, cleanup, sims, phase, crashed>>
  /\ UNCHANGED <<propVars, graphData, selectedNode, zoom, nResize, nTicks,
                 drags>>

(* The request of fetch f is rejected: setError, then setLoading(false).   *)
FetchFailure(f) ==
  /\ UNCHANGED otherPages
  /\ f \in inflight
  /\ inflight' = inflight \ {f}
  /\ last' = Ev("FetchFailure", NoSim)
  /\ IF phase = "mounted"
     THEN /\ error' = TRUE
          /\ loading' = FALSE
          /\ RenderOnly(FALSE)
     ELSE UNCHANGED <<error, loading, svgRef, canvas, zoomT, gT,
                      simulationRef, cleanup, sims, phase, crashed>>
  /\ UNCHANGED <<propVars, graphData, selectedNode, zoom, countVars, drags>>

(* The width or height prop changes: the graph-building effect re-runs.    *)
Resize(w, h) ==
  /\ UNCHANGED otherPages
  /\ phase = "mounted"
  /\ nResize < MaxResizes
  /\ <<w, h>> # <<width, height>>
  /\ width' = w
  /\ height' = h
  /\ nResize' = nResize + 1
  /\ RenderAndBuild(graphData, loading)
  /\ last' = Ev("Resize", NoSim)
  /\ UNCHANGED <<investigationId, graphData, loading, error, selectedNode,
                 zoom, inflight, nFetch, nTicks, drags>>

Unmount ==
  /\ UNCHANGED otherPages
  /\ phase = "mounted"
  /\ phase' = "unmounted"
  /\ sims' = StopIn(sims, cleanup)
  /\ cleanup' = NoSim
  /\ svgRef' = NoElem
  /\ canvas' = NoSim
  /\ zoomT' = Identity
  /\ gT' = Identity
  /\ last' = Ev("Unmount", NoSim)
  /\ UNCHANGED <<crashed, propVars, graphData, loading, error, selectedNode,
                 zoom, simulationRef, inflight, countVars, drags>>

(* One timer callback of simulation s.                                     *)
TickCore(s) ==
  /\ UNCHANGED otherPages
  /\ s \in DOMAIN sims
  /\ sims[s].running
  /\ \E nx \in [DOMAIN sims[s].x -> XCoord], ny \in [DOMAIN sims[s].y -> YCoord] :
       sims' = [sims EXCEPT ![s] = TickOf(@, nx, ny)]
  /\ graphData' = WriteNodes(graphData, sims[s], DOMAIN sims[s].x)
  /\ last' = Ev("Tick", s)
  /\ UNCHANGED <<phase, crashed, propVars, loading, error,
                 selectedNode, viewVars, svgRef, simulationRef, cleanup,
                 canvas, inflight, nFetch, nResize, drags>>

Tick(s) ==
  /\ nTicks < MaxTicks
  /\ nTicks' = nTicks + 1
  /\ TickCore(s)

FreeTick(s) ==
  /\ TickCore(s)
  /\ UNCHANGED nTicks

dragFrame == <<otherPages, phase, crashed, propVars, loading, error,
               selectedNode, viewVars, svgRef, simulationRef, cleanup,
               canvas, inflight, countVars>>

(* Pointer p goes down at (px, py) on node n of the drawn graph: the       *)
(* gesture keeps the offset of the node from the pointer, and event.x,     *)
(* event.y of its events are the pointer's position plus that offset.      *)
DragStart(p, n, px, py) ==
  /\ canvas # NoSim
  /\ drags[p] = NoDrag
  /\ n \in DOMAIN sims[canvas].x
  /\ LET s == canvas IN
     /\ sims' = [sims EXCEPT ![s] = dragstarted(@, n, Active(s))]
     /\ graphData' = WriteNodes(graphData, sims[s], {n})
     /\ drags' = [drags EXCEPT ![p] = [sim |-> s, node |-> n,
                                       dx |-> sims[s].x[n] - px,
                                       dy |-> sims[s].y[n] - py]]
     /\ last' = [Ev("DragStart", s) EXCEPT !.node = n, !.p = p,
                   !.x = sims[s].x[n], !.y = sims[s].y[n]]
  /\ UNCHANGED dragFrame

(* Pointer p, dragging, moves to (px, py).                                 *)
DragMove(p, px, py) ==
  /\ drags[p] # NoDrag
  /\ px + drags[p].dx \in XCoord
  /\ py + drags[p].dy \in YCoord
  /\ LET s == drags[p].sim
         n == drags[p].node
         ex == px + drags[p].dx
         ey == py + drags[p].dy
     IN /\ sims' = [sims EXCEPT ![s] = dragged(@, n, ex, ey)]
        /\ graphData' = WriteNodes(graphData, sims[s], {n})
        /\ last' = [Ev("DragMove", s) EXCEPT !.node = n, !.p = p,
                      !.x = ex, !.y = ey]
  /\ UNCHANGED drags
  /\ UNCHANGED dragFrame

(* Pointer p is released at (px, py).                                      *)
DragEnd(p, px, py) ==
  /\ drags[p] # NoDrag
  /\ px + drags[p].dx \in XCoord
  /\ py + drags[p].dy \in YCoord
  /\ LET s == drags[p].sim
         n == drags[p].node
         ex == px + drags[p].dx
         ey == py + drags[p].dy
     IN /\ sims' = [sims EXCEPT ![s] = dragended(@, n, Active(s) - 1, ex, ey)]
        /\ graphData' = WriteNodes(graphData, sims[s], {n})
        /\ last' = [Ev("DragEnd", s) EXCEPT !.node = n, !.p = p,
                      !.x = ex, !.y = ey]
  /\ drags' = [drags EXCEPT ![p] = NoDrag]
  /\ UNCHANGED dragFrame

(******************************** zoom *************************************)
zoomFrame == <<otherPages, phase, crashed, propVars, graphData, loading, error,
               selectedNode, svgRef, simulationRef, cleanup, sims, canvas,
               inflight, countVars, drags>>

ZoomInUnclamped(prev) == prev + ZoomStep

ZoomInValue(prev) == Min(prev + ZoomStep, ZoomMax)
ZoomOutValue(prev) == Max(prev - ZoomStep, ZoomMin)

(* d3's transform.translate(x, y) and transform.scale(k), scales in tenths.*)
translateBy(T, x, y) ==
  [T EXCEPT !.x = @ + (T.k * x) \div ZoomOne, !.y = @ + (T.k * y) \div ZoomOne]
scaleBy(T, k) == [T EXCEPT !.k = (@ * k) \div ZoomOne]

newTransformFromCurrent(cur, z) == scaleBy(translateBy(cur, cur.x, cur.y), z)

(* d3.zoomIdentity.translate(currentTransform.x, currentTransform.y)       *)
(*   .scale(zoom)                                                          *)
newTransform(cur, z) == scaleBy(translateBy(Identity, cur.x, cur.y), z)

(* setZoom(z) and, when the value changed, the zoom effect: a transform    *)
(* with the current translation and scale z is stored on the svg element   *)
(* through a fresh d3.zoom(), whose zoom event has no listener.            *)
SetZoom(z) ==
  /\ zoom' = z
  /\ zoomT' = IF z # zoom /\ svgRef # NoElem
              THEN newTransform(zoomT, z)
              ELSE zoomT
  /\ UNCHANGED gT

handleZoomIn ==
  /\ phase = "mounted"
  /\ SetZoom(ZoomInValue(zoom))
  /\ last' = Ev("ZoomIn", NoSim)
  /\ UNCHANGED zoomFrame

handleZoomOut ==
  /\ phase = "mounted"
  /\ SetZoom(ZoomOutValue(zoom))
  /\ last' = Ev("ZoomOut", NoSim)
  /\ UNCHANGED zoomFrame

(* scaleExtent([0.1, 4]) of the zoom behaviour bound to the svg.           *)
ClampScale(k) == Max(ExtentMin, Min(ExtentMax, k))

(* A wheel or pan gesture on the canvas asks for scale k and translation   *)
(* tr: zoomBehavior stores the transform and its listener applies it to g. *)
PointerZoomClicks(k, tr) ==
  /\ canvas # NoSim
  /\ zoomT' = [k |-> ClampScale(k), x |-> tr[1], y |-> tr[2]]
  /\ gT' = zoomT'
  /\ selectedNode' = NoSelection
  /\ last' = Ev("PointerZoom", NoSim)
  /\ UNCHANGED <<otherPages, phase, crashed, propVars, graphData, loading,
                 error, svgRef, simulationRef, cleanup, sims, canvas,
                 inflight, countVars, drags, zoom>>

PointerZoom(k, tr) ==
  /\ canvas # NoSim
  /\ zoomT' = [k |-> ClampScale(k), x |-> tr[1], y |-> tr[2]]
  /\ gT' = zoomT'
  /\ last' = Ev("PointerZoom", NoSim)
  /\ UNCHANGED zoom
  /\ UNCHANGED zoomFrame

(****************************** selection **********************************)
selectFrame == <<otherPages, phase, crashed, propVars, graphData, loading,
                 error,
                 viewVars, svgRef, simulationRef, cleanup, sims, canvas,
                 inflight, countVars, drags>>

nodeClickBubbles(s, n) == [selected |-> <<s, n>>, propagates |-> TRUE]

(* nodeGroup.on('click'): event.stopPropagation(); setSelectedNode(d).     *)
nodeClick(s, n) == [selected |-> <<s, n>>, propagates |-> FALSE]

(* svg.on('click'): setSelectedNode(null).                                 *)
svgClick == NoSelection

(* A click on node n of the drawn graph: the node's handler, then the      *)
(* svg's handler if the event still propagates to it.                      *)
NodeClick(n) ==
  /\ canvas # NoSim
  /\ n \in DOMAIN sims[canvas].x
  /\ LET e == nodeClick(canvas, n)
     IN selectedNode' = IF e.propagates THEN svgClick ELSE e.selected
  /\ last' = [Ev("NodeClick", canvas) EXCEPT !.node = n, !.was = selectedNode]
  /\ UNCHANGED selectFrame

(* A click on the svg background: its handler exists once the graph        *)
(* effect has bound it to the rendered element.                            *)
BackgroundClick ==
  /\ svgRef # NoElem
  /\ selectedNode' = IF canvas # NoSim THEN svgClick ELSE selectedNode
  /\ last' = Ev("BackgroundClick", NoSim)
  /\ UNCHANGED selectFrame

ClosePanel ==
  /\ svgRef # NoElem
  /\ selectedNode # <<NoSim, NoNode>>
  /\ selectedNode' = <<NoSim, NoNode>>
  /\ last' = Ev("ClosePanel", NoSim)
  /\ UNCHANGED selectFrame

(****************************** Login page *********************************)
loginMessageAlwaysDefault(err) == "Invalid username or password"

(* The message handleSubmit's catch branch computes from the rejection.    *)
loginMessage(err) ==
  IF err.kind = "Error" THEN err.message
  ELSE IF err.kind = "response"
  THEN (IF err.detail # "" THEN err.detail ELSE "Authentication failed")
  ELSE "Invalid username or password"

TypeUsername(u) ==
  /\ loginForm.path = "/login"
  /\ u # loginForm.username
  /\ loginForm' = [loginForm EXCEPT !.username = u, !.last = "Type",
                                    !.err = NoRejection]
  /\ UNCHANGED <<graphVars, invList>>

TypePassword(pw) ==
  /\ loginForm.path = "/login"
  /\ pw # loginForm.password
  /\ loginForm' = [loginForm EXCEPT !.password = pw, !.last = "Type",
                                    !.err = NoRejection]
  /\ UNCHANGED <<graphVars, invList>>

(* The form is submitted (both inputs are required; the submit button is   *)
(* disabled while loading): handleSubmit up to its await.                  *)
LoginSubmit ==
  /\ loginForm.path = "/login"
  /\ ~loginForm.loading
  /\ loginForm.username # ""
  /\ loginForm.password # ""
  /\ loginForm.nSubmit < MaxSubmits
  /\ loginForm' = [loginForm EXCEPT
                     !.error = "", !.loading = TRUE, !.pending = TRUE,
                     !.calledWith = <<loginForm.username, loginForm.password>>,
                     !.nSubmit = @ + 1, !.last = "Submit",
                     !.err = NoRejection]
  /\ UNCHANGED <<graphVars, invList>>

(* login resolves: navigate('/'), then setLoading(false).                  *)
LoginResolve ==
  /\ loginForm.pending
  /\ loginForm' = [loginForm EXCEPT
                     !.path = "/", !.loading = FALSE, !.pending = FALSE,
                     !.last = "Resolve", !.err = NoRejection]
  /\ UNCHANGED <<graphVars, invList>>

(* login rejects with err: setError(message), then setLoading(false).      *)
LoginReject(err) ==
  /\ loginForm.pending
  /\ loginForm' = [loginForm EXCEPT
                     !.error = loginMessage(err), !.loading = FALSE,
                     !.pending = FALSE, !.last = "Reject", !.err = err]
  /\ UNCHANGED <<graphVars, invList>>

(************************* InvestigationsList page *************************)
lowerChar(c) ==
  CASE c = "F" -> "f" [] c = "O" -> "o" [] c = "W" -> "w" [] c = "L" -> "l"
    [] c = "X" -> "x" [] c = "Z" -> "z" [] OTHER -> c
toLowerCase(t) == [i \in 1..Len(t) |-> lowerChar(t[i])]
includes(t, q) ==
  \E i \in 0..(Len(t) - Len(q)) : SubSeq(t, i + 1, i + Len(q)) = q

(* The callback of investigations.filter: search, status, priority and     *)
(* profile count tests.                                                    *)
passes(inv, L) ==
  /\ ~(L.searchQuery # <<>>
        /\ ~includes(toLowerCase(inv.title), toLowerCase(L.searchQuery)))
  /\ ~(L.statusFilter # "all" /\ inv.status # L.statusFilter)
  /\ ~(L.priorityFilter # "all" /\ inv.priority # L.priorityFilter)
  /\ ~(L.profileCountFilter = "0" /\ inv.profiles # 0)
  /\ ~(L.profileCountFilter = "1-2" /\ (inv.profiles < 1 \/ inv.profiles > 2))
  /\ ~(L.profileCountFilter = "3-5" /\ (inv.profiles < 3 \/ inv.profiles > 5))
  /\ ~(L.profileCountFilter = "6+" /\ inv.profiles < 6)

filteredInvestigations(L) ==
  SelectSeq(L.investigations, LAMBDA inv : passes(inv, L))

(* Math.ceil(filteredInvestigations.length / ITEMS_PER_PAGE)               *)
totalPages(L) ==
  (Len(filteredInvestigations(L)) + ItemsPerPage - 1) \div ItemsPerPage

(* filteredInvestigations.slice(start, start + ITEMS_PER_PAGE)             *)
paginatedInvestigations(L) ==
  LET f == filteredInvestigations(L)
      start == (L.currentPage - 1) * ItemsPerPage
  IN SubSeq(f, start + 1, Min(start + ItemsPerPage, Len(f)))

(* The pagination bar is rendered.                                         *)
PaginationShown(L) ==
  L.mounted /\ ~L.loading /\ Len(filteredInvestigations(L)) > 0

(* k calls of fetchInvestigations up to their await.                       *)
ListFetching(L, k) ==
  IF k = 0 THEN L
  ELSE [L EXCEPT !.loading = TRUE, !.error = NullError, !.pending = @ + k]

ListMount ==
  /\ ~invList.mounted
  /\ invList' = [ListFetching(invList, 1) EXCEPT !.mounted = TRUE,
                                                 !.last = "Mount"]
  /\ UNCHANGED <<graphVars, loginForm>>

ListFetched(resp) ==
  /\ invList.pending > 0
  /\ invList' = [invList EXCEPT !.investigations = resp, !.loading = FALSE,
                                !.pending = @ - 1, !.last = "Fetched"]
  /\ UNCHANGED <<graphVars, loginForm>>

(* The message fetchInvestigations' catch branch computes from the        *)
(* rejection.                                                              *)
listMessage(err) ==
  IF err.kind = "Error" THEN err.message
  ELSE IF err.kind = "response"
  THEN (IF err.detail # "" THEN err.detail ELSE "Failed to load investigations")
  ELSE "Failed to load investigations"

(* getAll() is rejected with err: setError(errorMessage), then             *)
(* setLoading(false).                                                      *)
ListFetchFailed(err) ==
  /\ invList.pending > 0
  /\ invList' = [invList EXCEPT !.error = listMessage(err), !.loading = FALSE,
                                !.pending = @ - 1, !.last = "FetchFailed"]
  /\ UNCHANGED <<graphVars, loginForm>>

(* {error && ...}: the error message and its Dismiss button are rendered   *)
(* when error is neither null nor the empty string.                        *)
ErrorShown(L) == L.error # NullError /\ L.error # ""

(* The "Dismiss error" button of the error message: setError(null).        *)
DismissError ==
  /\ invList.mounted
  /\ ErrorShown(invList)
  /\ invList' = [invList EXCEPT !.error = NullError, !.last = "Dismiss"]
  /\ UNCHANGED <<graphVars, loginForm>>

(* A press of Next (disabled when currentPage >= totalPages); the effect   *)
(* on currentPage fetches again.                                           *)
handleNextPage ==
  /\ PaginationShown(invList)
  /\ invList.currentPage < totalPages(invList)
  /\ invList.pending < MaxPending
  /\ invList' = [ListFetching(invList, 1) EXCEPT !.currentPage = @ + 1,
                                                 !.last = "Next"]
  /\ UNCHANGED <<graphVars, loginForm>>

(* A press of Previous (disabled when currentPage is 1).                   *)
handlePreviousPage ==
  /\ PaginationShown(invList)
  /\ invList.currentPage > 1
  /\ invList.pending < MaxPending
  /\ invList' = [ListFetching(invList, 1) EXCEPT !.currentPage = @ - 1,
                                                 !.last = "Previous"]
  /\ UNCHANGED <<graphVars, loginForm>>

SetSearchQuery(q) ==
  /\ invList.mounted
  /\ q # invList.searchQuery
  /\ invList' = [invList EXCEPT !.searchQuery = q, !.last = "Search"]
  /\ UNCHANGED <<graphVars, loginForm>>

SetStatusFilter(v) ==
  /\ invList.mounted
  /\ v # invList.statusFilter
  /\ invList' = [invList EXCEPT !.statusFilter = v, !.last = "Status"]
  /\ UNCHANGED <<graphVars, loginForm>>

SetPriorityFilter(v) ==
  /\ invList.mounted
  /\ v # invList.priorityFilter
  /\ invList' = [invList EXCEPT !.priorityFilter = v, !.last = "Priority"]
  /\ UNCHANGED <<graphVars, loginForm>>

SetProfileCountFilter(v) ==
  /\ invList.mounted
  /\ v # invList.profileCountFilter
  /\ invList' = [invList EXCEPT !.profileCountFilter = v, !.last = "Count"]
  /\ UNCHANGED <<graphVars, loginForm>>

clearFilters ==
  /\ invList.mounted
  /\ invList' = [invList EXCEPT !.statusFilter = "all",
                                !.priorityFilter = "all",
                                !.profileCountFilter = "all",
                                !.last = "Clear"]
  /\ UNCHANGED <<graphVars, loginForm>>

(* setCurrentPage(1) and fetchInvestigations(); the effect on currentPage  *)
(* fetches once more when the page changed.                                *)
applyFilters ==
  /\ invList.mounted
  /\ LET k == IF invList.currentPage = 1 THEN 1 ELSE 2
     IN /\ invList.pending + k <= MaxPending
        /\ invList' = [ListFetching(invList, k) EXCEPT !.currentPage = 1,
                                                       !.last = "Apply"]
  /\ UNCHANGED <<graphVars, loginForm>>

(*************************** specifications ********************************)
Lifecycle ==
  \/ Mount
  \/ \E id \in Scopes : ScopeChange(id)
  \/ handleRefresh
  \/ \E f \in inflight, payload \in Payloads : FetchSuccess(f, payload)
  \/ \E f \in inflight : FetchFailure(f)
  \/ \E sz \in Sizes : Resize(sz[1], sz[2])
  \/ Unmount

Dragging(P, N) ==
  \/ \E p \in P, n \in N, px \in XCoord, py \in YCoord : DragStart(p, n, px, py)
  \/ \E p \in P, px \in XCoord, py \in YCoord : DragMove(p, px, py)
  \/ \E p \in P, px \in XCoord, py \in YCoord : DragEnd(p, px, py)

(* The whole life cycle, with one-node graphs and one pointer.             *)
Next ==
  \/ Lifecycle
  \/ Dragging(1..LifePointer, 1..LifeNodes)
  \/ \E s \in DOMAIN sims : Tick(s)

Spec == Init /\ [][Next]_vars

(* Drags of several pointers on a graph of several nodes, across a rebuild *)
(* of the model.                                                           *)
NextDrag ==
  \/ Mount
  \/ \E f \in inflight : FetchSuccess(f, GoodGraph(MaxNodes))
  \/ \E sz \in Sizes : Resize(sz[1], sz[2])
  \/ Dragging(1..MaxPointer, 1..MaxNodes)
  \/ \E s \in DOMAIN sims : Tick(s)

SpecDrag == Init /\ [][NextDrag]_vars

(* One timer callback in the life of one simulation: the ticks that run    *)
(* while a pointer is held on a node are counted, at most MaxHeldTicks of  *)
(* them in a behaviour; the others are not.                                *)
SimTick(s) ==
  \/ /\ Active(s) = 0
     /\ FreeTick(s)
  \/ /\ Active(s) > 0
     /\ nTicks < MaxHeldTicks
     /\ nTicks' = nTicks + 1
     /\ TickCore(s)

(* One simulation from its construction to Idle, with drags.               *)
NextSim ==
  \/ Mount
  \/ \E f \in inflight : FetchSuccess(f, GoodGraph(LifeNodes))
  \/ Dragging(1..LifePointer, 1..LifeNodes)
  \/ \E s \in DOMAIN sims : SimTick(s)

SpecSim == Init /\ [][NextSim]_vars

(* The two zoom paths over the life cycle.                                 *)
NextZoom ==
  \/ Lifecycle
  \/ handleZoomIn
  \/ handleZoomOut
  \/ \E k \in WheelScales, tr \in Translations : PointerZoom(k, tr)

SpecZoom == Init /\ [][NextZoom]_vars

(* The zoom paths beside a fresh simulation, drags, a selection and a      *)
(* failed refresh.                                                         *)
NextView ==
  \/ Mount
  \/ handleRefresh
  \/ \E f \in inflight : FetchSuccess(f, GoodGraph(LifeNodes))
  \/ \E f \in inflight : FetchFailure(f)
  \/ Dragging(1..LifePointer, 1..LifeNodes)
  \/ \E n \in 1..LifeNodes : NodeClick(n)
  \/ handleZoomIn
  \/ handleZoomOut
  \/ \E k \in WheelScales, tr \in Translations : PointerZoom(k, tr)

SpecView == Init /\ [][NextView]_vars

(* Selection over the life cycle.                                          *)
NextSelect ==
  \/ Lifecycle
  \/ \E f \in inflight : FetchSuccess(f, GoodGraph(MaxNodes))
  \/ \E n \in 1..MaxNodes : NodeClick(n)
  \/ BackgroundClick
  \/ ClosePanel

SpecSelect == Init /\ [][NextSelect]_vars

(* Builds of the model from responses with any nodes and links.            *)
NextBuild ==
  \/ Mount
  \/ handleRefresh
  \/ \E f \in inflight, payload \in BuildPayloads : FetchSuccess(f, payload)

SpecBuild == Init /\ [][NextBuild]_vars

(* The Login page.                                                         *)
NextLogin ==
  \/ \E u \in Usernames : TypeUsername(u)
  \/ \E pw \in Passwords : TypePassword(pw)
  \/ LoginSubmit
  \/ LoginResolve
  \/ \E err \in Rejections : LoginReject(err)

SpecLogin == Init /\ [][NextLogin]_vars

(* The InvestigationsList page.                                            *)
NextList ==
  \/ ListMount
  \/ \E resp \in ListResponses : ListFetched(resp)
  \/ \E err \in ListRejections : ListFetchFailed(err)
  \/ DismissError
  \/ handleNextPage
  \/ handlePreviousPage
  \/ \E q \in Queries : SetSearchQuery(q)
  \/ \E v \in StatusOptions : SetStatusFilter(v)
  \/ \E v \in PriorityOptions : SetPriorityFilter(v)
  \/ \E v \in CountOptions : SetProfileCountFilter(v)
  \/ clearFilters
  \/ applyFilters

SpecList == Init /\ [][NextList]_vars

(******************************* claims ************************************)
Running == {s \in DOMAIN sims : sims[s].running}
Nodes(s) == DOMAIN sims[s].x
Pinned(s, n) == sims[s].fx[n] # Unpinned
Gestures(s, n) == {p \in DOMAIN drags : drags[p].sim = s /\ drags[p].node = n}
(* Simulation s belongs to a model that a later installed model replaced.  *)
Superseded(s) == simulationRef # NoSim /\ s < simulationRef

(* C1: at most one simulation is ticking, every simulation but the newest  *)
(* has been stopped (a simulation is created only after the previous one   *)
(* was stopped), and a simulation on which stop() was called is not        *)
(* ticking (it is never restarted).                                        *)
C1_AtMostOneSimulationTicks ==
  /\ Cardinality(Running) <= 1
  /\ \A s \in DOMAIN sims : s < Len(sims) => sims[s].stopped
  /\ \A s \in DOMAIN sims : sims[s].stopped => ~sims[s].running

(* A second simulation ticks while a drag begun on the first is active.    *)
C1_Witness ==
  /\ Len(sims) >= 2
  /\ sims[Len(sims)].running
  /\ last.act = "Tick"
  /\ \E p \in DOMAIN drags : drags[p].sim = 1

(* C2: once a new model is installed, the simulation of the replaced model *)
(* is not ticking and the event just handled is not a tick of it, whatever *)
(* happens afterwards (drag move and end of a drag begun on it included).  *)
C2_ReplacedSimulationNeverTicks ==
  \A s \in DOMAIN sims :
    Superseded(s) => ~sims[s].running /\ ~(last.act = "Tick" /\ last.sim = s)

(* A refresh replaced model 1 by model 2 during a drag of a node of model  *)
(* 1, and that drag has just ended.                                        *)
C2_Witness ==
  /\ simulationRef = 2
  /\ sims[2].data = 2
  /\ investigationId = "inv1"
  /\ nResize = 0
  /\ last.act = "DragEnd"
  /\ last.sim = 1

(* C3: after the view is unmounted, no simulation tick executes.           *)
C3_NoTickAfterUnmount ==
  phase = "unmounted" => last.act # "Tick"

(* C4: the end of a drag at (event.x, event.y) leaves the node pinned      *)
(* there, every tick puts each pinned node at its pin, and the pin of a    *)
(* dropped node (pinned, no gesture on it) changes only when a new drag    *)
(* of that node starts; the simulation's record outlives a rebuild.        *)
C4_PinnedAtTick ==
  /\ last.act = "DragEnd" =>
       /\ sims[last.sim].fx[last.node] = last.x
       /\ sims[last.sim].fy[last.node] = last.y
  /\ last.act = "Tick" =>
       \A n \in Nodes(last.sim) :
         Pinned(last.sim, n) =>
           /\ sims[last.sim].x[n] = sims[last.sim].fx[n]
           /\ sims[last.sim].y[n] = sims[last.sim].fy[n]

C4_DroppedPinKept ==
  \A s \in DOMAIN sims : \A n \in Nodes(s) :
    (/\ Pinned(s, n)
     /\ Gestures(s, n) = {}
     /\ \A p \in DOMAIN drags : ~(drags'[p].sim = s /\ drags'[p].node = n))
    => /\ sims'[s].fx[n] = sims[s].fx[n]
       /\ sims'[s].fy[n] = sims[s].fy[n]

C4_DroppedNodeStaysPinned == []C4_PinnedAtTick /\ [][C4_DroppedPinKept]_vars

(* Node 1 was dragged away from its initial position and dropped; after a  *)
(* later tick it is at its pin, and node 2 is free.                        *)
C4_Witness ==
  /\ last.act = "Tick"
  /\ Nodes(last.sim) = 1..MaxNodes
  /\ Pinned(last.sim, 1)
  /\ Gestures(last.sim, 1) = {}
  /\ sims[last.sim].fx[1] # InitX(1)
  /\ sims[last.sim].x[1] = sims[last.sim].fx[1]
  /\ ~Pinned(last.sim, 2)

(* C5: an event other than a successful fetch (zoom, click, failed fetch,  *)
(* change of width or height) leaves the installed simulation the same     *)
(* and every dropped node of it pinned where it was dropped.               *)
C5_OnlyReloadRebuilds ==
  [][(/\ last'.act \in {"Resize", "FetchFailure", "ZoomIn", "ZoomOut",
                        "PointerZoom", "NodeClick", "BackgroundClick"}
      /\ last' # last
      /\ simulationRef # NoSim
      /\ \E n \in Nodes(simulationRef) :
           Pinned(simulationRef, n) /\ Gestures(simulationRef, n) = {})
     => /\ simulationRef' = simulationRef
        /\ sims'[simulationRef'].fx = sims[simulationRef].fx
        /\ sims'[simulationRef'].fy = sims[simulationRef].fy]_vars

(* The pointer of the gesture that the DragStart just handled began.       *)
StartPointerX == last.x - drags[last.p].dx
StartPointerY == last.y - drags[last.p].dy

(* C6 as stated: a drag start with no other drag active sets alphaTarget   *)
(* to 0.3, makes the simulation tick, and pins the node at the pointer's   *)
(* initial position.                                                       *)
C6_PinnedAtPointer ==
  (last.act = "DragStart" /\ Active(last.sim) = 1) =>
    /\ sims[last.sim].alphaTarget = DragTarget
    /\ sims[last.sim].running
    /\ sims[last.sim].fx[last.node] = StartPointerX
    /\ sims[last.sim].fy[last.node] = StartPointerY

(* C6 amended: a drag start with no other drag active sets alphaTarget to  *)
(* 0.3 and makes the simulation tick (also from Idle), leaves alpha and    *)
(* every node's x, y as they were, and pins the node at its own current    *)
(* position (event.subject.x, event.subject.y).                            *)
C6_DragStartStep ==
  \A p \in DOMAIN drags :
    (drags[p] = NoDrag /\ drags'[p] # NoDrag /\ Active(drags'[p].sim) = 0) =>
      LET s == drags'[p].sim
          n == drags'[p].node
      IN /\ sims'[s].alphaTarget = DragTarget
         /\ sims'[s].running
         /\ sims'[s].alpha = sims[s].alpha
         /\ sims'[s].x = sims[s].x
         /\ sims'[s].y = sims[s].y
         /\ sims'[s].fx[n] = sims[s].x[n]
         /\ sims'[s].fy[n] = sims[s].y[n]

C6_DragStartReheats == [][C6_DragStartStep]_vars

(* A drag has just started on an Idle simulation, with the pointer off     *)
(* the node's centre: the simulation ticks again with alpha below alphaMin.*)
C6_Witness ==
  /\ last.act = "DragStart"
  /\ sims[last.sim].alpha < AlphaMin
  /\ sims[last.sim].running
  /\ sims[last.sim].alphaTarget = DragTarget
  /\ StartPointerX # last.x

(* C7: a simulation's alphaTarget is 0.3 exactly while at least one drag   *)
(* gesture on its nodes is active, and 0 otherwise.                        *)
C7_AlphaTargetTracksDrags ==
  \A s \in DOMAIN sims :
    sims[s].alphaTarget = IF Active(s) > 0 THEN DragTarget ELSE 0

(* One of two concurrent drags has just ended; the other keeps the         *)
(* simulation heated.                                                      *)
C7_Witness ==
  /\ last.act = "DragEnd"
  /\ Active(last.sim) = 1
  /\ sims[last.sim].alphaTarget = DragTarget

(* C8: a tick with alphaTarget 0 lowers alpha by at least the decay        *)
(* factor, to within the half unit of rounding (so alpha is                *)
(* non-increasing, strictly falling while it is not below alphaMin, and    *)
(* below alphaMin after a bounded number of ticks) and the timer stops     *)
(* exactly when alpha is below alphaMin; a simulation with an active drag  *)
(* is ticking.                                                             *)
C8_TickCools ==
  \A s \in DOMAIN sims :
    (last'.act = "Tick" /\ last'.sim = s /\ sims'[s] # sims[s]
       /\ sims[s].alphaTarget = 0) =>
      /\ sims'[s].alpha <= sims[s].alpha
      /\ sims'[s].alpha >= 0
      /\ (sims[s].alpha - sims'[s].alpha) * (DecayDen \div DecayNum + 1)
            + (DecayDen \div DecayNum + 1) \div 2 >= sims[s].alpha
      /\ sims[s].alpha >= AlphaMin => sims'[s].alpha < sims[s].alpha
      /\ sims'[s].running <=> sims'[s].alpha >= AlphaMin

C8_DragKeepsTicking ==
  \A s \in DOMAIN sims : Active(s) > 0 => sims[s].running

C8_CoolsToIdle == [][C8_TickCools]_vars /\ []C8_DragKeepsTicking

(* After the end of a drag the simulation has cooled to Idle.              *)
C8_Witness ==
  /\ last.act = "Tick"
  /\ sims[last.sim].alphaTarget = 0
  /\ sims[last.sim].alpha < AlphaMin
  /\ ~sims[last.sim].running
  /\ \E n \in Nodes(last.sim) : Pinned(last.sim, n)

(* C9: while a graph is drawn, the scale tracked for the buttons, the      *)
(* scale of the transform the svg's zoom behaviour holds and the scale     *)
(* applied to the drawn graph are equal.                                   *)
C9_OneViewTransform ==
  canvas # NoSim => zoom = zoomT.k /\ zoomT.k = gT.k

(* C10: the button-driven scale stays within [0.5, 3.0].                   *)
C10_ZoomWithinRange == ZoomMin <= zoom /\ zoom <= ZoomMax

(* A zoom-in press has left the scale at its maximum.                      *)
C10_Witness == last.act = "ZoomIn" /\ zoom = ZoomMax

(* C11: once a successful fetch has installed a new model (the graph is    *)
(* drawn again), no node is selected.                                      *)
C11_SelectionClearedOnRefresh ==
  (last.act = "FetchSuccess" /\ canvas # NoSim) => selectedNode = NoSelection

(* C12: a click on the background of the displayed canvas leaves no node   *)
(* selected.                                                               *)
C12_BackgroundClickDeselects ==
  last.act = "BackgroundClick" => selectedNode = NoSelection

(* C13: once a click on node N has been handled, N is the selected node,   *)
(* whatever was selected before: the click did not reach the background    *)
(* handler.                                                                *)
C13_NodeClickSelects ==
  last.act = "NodeClick" => selectedNode = <<last.sim, last.node>>

(* A click on a node while another node was selected.                      *)
C13_Witness ==
  /\ last.act = "NodeClick"
  /\ last.was # NoSelection
  /\ last.was[1] = last.sim
  /\ last.was[2] # last.node
  /\ selectedNode = <<last.sim, last.node>>

(* The response of fetch f is the only one awaited and is handled, with a  *)
(* graph, while the view is mounted.                                       *)
SoleSuccess(f) ==
  /\ phase = "mounted"
  /\ inflight = {f}
  /\ inflight' = {}
  /\ last'.act = "FetchSuccess"

(* After the step, loading is false and a model copied from the response   *)
(* of f is installed with a new simulation, ticking with alpha 1,          *)
(* alphaTarget 0 and no pinned node, drawn in the mounted svg.             *)
InstalledNext(f) ==
  /\ loading' = FALSE
  /\ graphData'.id = f.id
  /\ Len(sims') = Len(sims) + 1
  /\ simulationRef' = Len(sims')
  /\ svgRef' = SvgElem
  /\ canvas' = simulationRef'
  /\ LET m == sims'[Len(sims')]
     IN /\ m.data = f.id
        /\ m.fresh
        /\ DOMAIN m.x = graphData'.nodes
        /\ m.running
        /\ m.alpha = AlphaOne
        /\ m.alphaTarget = 0
        /\ \A n \in DOMAIN m.fx : m.fx[n] = Unpinned /\ m.fy[n] = Unpinned

(* C14 as stated: every successful fetch handled while the view is mounted *)
(* and no other fetch is in flight installs a fresh model with a new       *)
(* simulation Running at alpha 1.                                          *)
C14_EverySuccessInstalls ==
  [][\A f \in inflight : SoleSuccess(f) => InstalledNext(f)]_vars

(* C15: a failed fetch, handled while the view is mounted and no other     *)
(* fetch is in flight, sets loading to false and the error message, and    *)
(* leaves the fetched data, every simulation (none created, none stopped)  *)
(* and the installed simulation as they were.                              *)
C15_FailureStep ==
  \A f \in inflight :
    (/\ phase = "mounted"
     /\ inflight = {f}
     /\ inflight' = {}
     /\ last'.act = "FetchFailure")
    => /\ loading' = FALSE
       /\ error' = TRUE
       /\ graphData' = graphData
       /\ sims' = sims
       /\ simulationRef' = simulationRef
       /\ cleanup' = cleanup

C15_FailureKeepsModel == [][C15_FailureStep]_vars

(* A refresh has just failed while the simulation of the fetched graph     *)
(* was ticking: it still is.                                               *)
C15_Witness ==
  /\ last.act = "FetchFailure"
  /\ phase = "mounted"
  /\ inflight = {}
  /\ error
  /\ ~loading
  /\ simulationRef # NoSim
  /\ sims[simulationRef].running
  /\ sims[simulationRef].data = graphData.id

(* C16: no exception escapes the build of the model and simulation: a      *)
(* failed fetch, and a response holding a link to a missing node, both end *)
(* with the error message set and the view still rendered.                 *)
C16_ErrorsNeverEscape ==
  /\ ~crashed
  /\ (last.act = "FetchFailure" /\ phase = "mounted") => error
  /\ (last.act = "FetchSuccess" /\ Dangling(graphData)) =>
       (error /\ phase = "mounted")

(* C17: of the data last fetched, every model built has either exactly    *)
(* the fetched links, each joining two nodes of that model (when every     *)
(* link's endpoints exist: the build then succeeds), or was rejected whole *)
(* with no link kept (when some link's endpoint is missing).               *)
C17_LinksResolvedOrRejected ==
  /\ \A s \in DOMAIN sims :
       sims[s].data = graphData.id =>
         IF Dangling(graphData)
         THEN ~sims[s].built /\ sims[s].links = {} /\ simulationRef # s
         ELSE /\ sims[s].built
              /\ sims[s].links = graphData.links
              /\ \A l \in sims[s].links :
                   l[1] \in Nodes(s) /\ l[2] \in Nodes(s)
  /\ (last.act = "FetchSuccess" /\ phase = "mounted") =>
       /\ ~Dangling(graphData)
       /\ simulationRef = Len(sims)
       /\ sims[simulationRef].data = graphData.id
  /\ Dangling(graphData) => sims[Len(sims)].data = graphData.id

(* Model 1 was built with two links; the refresh brought a link that       *)
(* resolves and a link to a missing node, and model 2 was rejected whole.  *)
C17_Witness ==
  /\ Len(sims) = 2
  /\ sims[1].built
  /\ Cardinality(sims[1].links) = 2
  /\ Dangling(graphData)
  /\ \E l \in graphData.links : l[1] \in graphData.nodes /\ l[2] \in graphData.nodes
  /\ ~sims[2].built
  /\ sims[2].links = {}

(* C18: no simulation field is ever written on a fetched node object, and  *)
(* a tick or a drag start, move or end leaves the fetched graph data       *)
(* (ids of its nodes, its links) unchanged: they write to the copies.      *)
C18_Untouched == graphData.written = {}

C18_Step ==
  last'.act \in {"Tick", "DragStart", "DragMove", "DragEnd"} =>
    graphData' = graphData

C18_FetchedDataUntouched == []C18_Untouched /\ [][C18_Step]_vars

(* The simulation of the fetched data has ticked with a node dragged away  *)
(* from its initial position and pinned.                                   *)
C18_Witness ==
  /\ last.act = "Tick"
  /\ sims[last.sim].data = graphData.id
  /\ \E n \in Nodes(last.sim) :
       /\ Pinned(last.sim, n)
       /\ Gestures(last.sim, n) = {}
       /\ sims[last.sim].x[n] # InitX(n)
  /\ graphData.written = {}

(* C19: the mount, every change of the scope id and every press of the     *)
(* refresh control issue exactly one fetch, and no other event (a failed   *)
(* fetch included) issues any: the number of fetches issued is             *)
(* 1 + scope changes + refresh presses.                                    *)
C19_Step ==
  IF last'.act \in {"Mount", "ScopeChange", "Refresh"}
  THEN /\ nFetch' = nFetch + 1
       /\ \E f \in inflight' : f \notin inflight /\ inflight' = inflight \cup {f}
  ELSE /\ nFetch' = nFetch
       /\ inflight' \subseteq inflight

C19_Counted == nFetch = IF phase = "new" THEN 0 ELSE Max(nFetch, 1)

C19_FetchOnlyOnDemand == []C19_Counted /\ [][C19_Step]_vars

(* The fetch of the mount and the fetch of a scope change have both been   *)
(* answered, the last one by a failure, and no fetch is awaited.           *)
C19_Witness ==
  /\ last.act = "FetchFailure"
  /\ phase = "mounted"
  /\ error
  /\ investigationId = "inv2"
  /\ nFetch = 2
  /\ inflight = {}

(* C20: a node's x, y change only in a tick of its simulation, which is    *)
(* the installed one; the node elements are redrawn only by the tick       *)
(* callback, and after it they show the positions that tick produced; the  *)
(* callback leaves every pin and alphaTarget as they were and alpha as the *)
(* tick's decay step set it.                                               *)
C20_Step ==
  \A s \in DOMAIN sims :
    /\ (sims'[s].x # sims[s].x \/ sims'[s].y # sims[s].y) =>
         (last'.act = "Tick" /\ last'.sim = s /\ s = simulationRef)
    /\ (sims'[s].tx # sims[s].tx \/ sims'[s].ty # sims[s].ty) =>
         (last'.act = "Tick" /\ last'.sim = s)
    /\ (last'.act = "Tick" /\ last'.sim = s /\ sims'[s] # sims[s]) =>
         /\ sims'[s].fx = sims[s].fx
         /\ sims'[s].fy = sims[s].fy
         /\ sims'[s].alphaTarget = sims[s].alphaTarget
         /\ sims'[s].alpha = AlphaStep(sims[s].alpha, sims[s].alphaTarget)

C20_DrawnAfterTick ==
  (last.act = "Tick" /\ sims[last.sim].built) =>
    /\ sims[last.sim].tx = sims[last.sim].x
    /\ sims[last.sim].ty = sims[last.sim].y

C20_TickWritesRenderReads == []C20_DrawnAfterTick /\ [][C20_Step]_vars

(* A tick has moved a free node away from where it was first drawn, and    *)
(* its element shows the new position.                                     *)
C20_Witness ==
  /\ last.act = "Tick"
  /\ nTicks = MaxTicks
  /\ \E n \in Nodes(last.sim) :
       /\ ~Pinned(last.sim, n)
       /\ sims[last.sim].x[n] # InitX(n)
       /\ sims[last.sim].tx[n] = sims[last.sim].x[n]

(* C21: once a rejection of the login call by an Error with a message has  *)
(* been handled, the form shows that message, loading is false and the     *)
(* page is still the login page; a submit clears the error; loading is     *)
(* true exactly from the submit until the login call settles.              *)
C21_LoginFailureShown ==
  /\ (loginForm.last = "Reject" /\ loginForm.err.kind = "Error"
        /\ loginForm.err.message # "") =>
       /\ loginForm.error = loginForm.err.message
       /\ ~loginForm.loading
       /\ loginForm.path = "/login"
  /\ loginForm.last = "Submit" => (loginForm.error = "" /\ loginForm.loading)
  /\ loginForm.loading <=> loginForm.pending

(* The second login attempt has been rejected with a message.              *)
C21_Witness ==
  /\ loginForm.last = "Reject"
  /\ loginForm.nSubmit = 2
  /\ loginForm.err.kind = "Error"
  /\ loginForm.error = "Bad credentials"
  /\ ~loginForm.loading

(* C22: a zoom-in press sets the button scale s to min(s + 0.2, 3), a      *)
(* zoom-out press to max(s - 0.2, 0.5); when the new scale is applied to   *)
(* the transform of the svg it becomes that transform's scale, and in      *)
(* every case the translation of the transform is what it was.             *)
C22_Step ==
  /\ last'.act = "ZoomIn" =>
       zoom' = IF zoom + ZoomStep < ZoomMax THEN zoom + ZoomStep ELSE ZoomMax
  /\ last'.act = "ZoomOut" =>
       zoom' = IF zoom - ZoomStep > ZoomMin THEN zoom - ZoomStep ELSE ZoomMin
  /\ last'.act \in {"ZoomIn", "ZoomOut"} =>
       /\ zoomT'.x = zoomT.x
       /\ zoomT'.y = zoomT.y
       /\ gT' = gT
       /\ zoomT'.k = IF zoom' # zoom /\ svgRef # NoElem THEN zoom' ELSE zoomT.k

C22_ButtonZoomKeepsTranslation == [][C22_Step]_vars

(* A zoom-in press after a pan: the transform of the svg has the button    *)
(* scale and the translation of the pan.                                   *)
C22_Witness ==
  /\ last.act = "ZoomIn"
  /\ svgRef # NoElem
  /\ zoomT.x # 0
  /\ zoomT.y # 0
  /\ zoomT.k = zoom
  /\ zoom > ZoomOne

(* C23: a zoom-in or zoom-out press and a pointer zoom or pan leave every  *)
(* simulation (node positions, pins, alpha, alphaTarget, running), the     *)
(* selection, the fetched data, loading and error as they were, build no   *)
(* model and issue no fetch.                                               *)
C23_Step ==
  last'.act \in {"ZoomIn", "ZoomOut", "PointerZoom"} =>
    /\ sims' = sims
    /\ simulationRef' = simulationRef
    /\ canvas' = canvas
    /\ svgRef' = svgRef
    /\ drags' = drags
    /\ selectedNode' = selectedNode
    /\ graphData' = graphData
    /\ loading' = loading
    /\ error' = error
    /\ inflight' = inflight
    /\ nFetch' = nFetch

C23_ZoomDecoupled == [][C23_Step]_vars

(* A pointer zoom while a pinned node is selected and its simulation runs. *)
C23_Witness ==
  /\ last.act = "PointerZoom"
  /\ zoomT.k # ZoomOne
  /\ simulationRef # NoSim
  /\ sims[simulationRef].running
  /\ sims[simulationRef].fx[1] # Unpinned
  /\ selectedNode = <<simulationRef, 1>>

(* A zoom-in press beside the banner of a failed refresh.                  *)
C23_WitnessPress ==
  /\ last.act = "ZoomIn"
  /\ error
  /\ graphData # NullData
  /\ zoom > ZoomOne

(* C24: last request wins. Once every fetch has completed and none has    *)
(* failed since the last one was issued, the installed graph data is the   *)
(* response to the most recently issued fetch and belongs to the current   *)
(* scope id, in whatever order overlapping fetches completed.              *)
C24_LastRequestWins ==
  (/\ phase = "mounted"
   /\ inflight = {}
   /\ nFetch > 0
   /\ ~error
   /\ last.act = "FetchSuccess") =>
     /\ graphData.id = nFetch
     /\ graphData.scope = investigationId

(* C25: while the view is mounted, loading is true in every state in which *)
(* a fetch is in flight and false in every state in which none is.         *)
C25_LoadingIffInFlight ==
  phase = "mounted" => (loading <=> inflight # {})

(* C26: whenever the view is mounted, loading is false and fetched graph   *)
(* data is present, the canvas element on screen shows that graph: the     *)
(* current simulation was built from that data and draws into that         *)
(* element.                                                                *)
C26_CanvasShowsData ==
  (phase = "mounted" /\ ~loading /\ graphData # NullData) =>
     /\ svgRef # NoElem
     /\ canvas # NoSim
     /\ canvas = simulationRef
     /\ sims[canvas].data = graphData.id

(* C27: while the view is mounted the selected node is none or a node of   *)
(* the model currently installed.                                          *)
C27_SelectionInCurrentModel ==
  phase = "mounted" =>
    \/ selectedNode = NoSelection
    \/ /\ simulationRef # NoSim
       /\ selectedNode[1] = simulationRef
       /\ selectedNode[2] \in DOMAIN sims[simulationRef].x

(* C28: the error banner reflects the latest outcome. While the view is    *)
(* mounted and no fetch is in flight, right after a fetch completed the    *)
(* error is set exactly when that fetch failed.                            *)
C28_ErrorIsLatestOutcome ==
  (/\ phase = "mounted"
   /\ inflight = {}
   /\ last.act \in {"FetchSuccess", "FetchFailure"}) =>
     (error <=> last.act = "FetchFailure")

(* The pinned nodes of simulation s.                                       *)
PinnedIn(S, s) == {n \in DOMAIN S[s].fx : S[s].fx[n] # Unpinned}

(* C29: within one model the set of pinned nodes only grows: no step       *)
(* clears a pin, every model stays in place, and a node becomes pinned     *)
(* only by the start of a drag on it.                                      *)
C29_Step ==
  /\ Len(sims') >= Len(sims)
  /\ \A s \in DOMAIN sims :
       /\ DOMAIN sims'[s].fx = DOMAIN sims[s].fx
       /\ PinnedIn(sims, s) \subseteq PinnedIn(sims', s)
       /\ \A n \in PinnedIn(sims', s) \ PinnedIn(sims, s) :
            /\ last'.act = "DragStart"
            /\ last'.sim = s
            /\ last'.node = n
  /\ \A s \in DOMAIN sims' \ DOMAIN sims : PinnedIn(sims', s) = {}

C29_PinsOnlyGrow == [][C29_Step]_vars

(* A node pinned by a drag that ended is still pinned after later ticks    *)
(* of its simulation.                                                      *)
C29_Witness ==
  /\ last.act = "Tick"
  /\ last.sim # NoSim
  /\ PinnedIn(sims, last.sim) # {}
  /\ \A p \in DOMAIN drags : drags[p] = NoDrag
  /\ nTicks >= 2

(* C30: in the investigations list currentPage lies in                     *)
(* 1..max(1, totalPages), totalPages being computed from the currently     *)
(* filtered list; so whenever the filtered list is non-empty the displayed *)
(* page is non-empty.                                                      *)
C30_PageWithinRange ==
  invList.mounted =>
    /\ invList.currentPage >= 1
    /\ invList.currentPage <= Max(1, totalPages(invList))
    /\ Len(filteredInvestigations(invList)) > 0 =>
         Len(paginatedInvestigations(invList)) > 0

====
